---- MODULE Spec2Model ----
(***************************************************************************)
(* Model of service_monitor/main.go: the config-driven status reporter.    *)
(*                                                                         *)
(* Tasks: main (startup), the config watcher goroutine, the load simulator *)
(* goroutine, a pool of GET / handlers, a pool of GET /config handlers,    *)
(* and the environment that edits the roster file.                         *)
(*                                                                         *)
(* Abstractions:                                                           *)
(*  - a file's modification time is the number of the write that produced  *)
(*    it, so every write changes the modification time; the zero time.Time *)
(*    is 0;                                                                *)
(*  - the TOML text of the file is the record of its two lists, or the     *)
(*    value Malformed for text toml.Unmarshal rejects;                     *)
(*  - gauge values are integers: the error-rate gauge is held in tenths    *)
(*    and the simulated load is drawn from 0..MaxLoad.                     *)
(***************************************************************************)
EXTENDS Integers, Sequences, FiniteSets, TLC

(* ------------------------------ bounds -------------------------------- *)

\* longest up/down list the environment writes
MaxLen ==
    1

\* number of writes the environment makes to the roster file
MaxEdits ==
    2

\* number of concurrent GET /config handlers
NumConfig ==
    2

\* number of concurrent GET / handlers
NumHealth ==
    2

\* number of GET / calls started
MaxRequests ==
    3

\* largest load the simulator draws
MaxLoad ==
    1

(* ------------------------------- data --------------------------------- *)

\* names the environment uses in the rosters it writes
EditNames ==
    {"api-gateway", "auth-service"}

SeqsUpTo(S, n) ==
    UNION {[1..k -> S] : k \in 0..n}

Range(s) ==
    {s[i] : i \in 1..Len(s)}

\* type Config struct
Config(up, down) ==
    [UpServices |-> up, DownServices |-> down]

\* the text main writes when the file does not exist
defaultConfig ==
    [up_services   |-> <<"api-gateway", "auth-service", "user-service", "payment-service">>,
     down_services |-> <<"notification-service", "recommendation-engine">>]

\* the roster main falls back to when the initial load fails
FallbackConfig ==
    Config(<<"default-service">>, <<>>)

Malformed ==
    [garbage |-> TRUE]

\* well-formed file texts the environment writes
RosterTexts ==
    {[up_services |-> u, down_services |-> d] :
        u \in SeqsUpTo(EditNames, MaxLen), d \in SeqsUpTo(EditNames, MaxLen)}

Contents ==
    RosterTexts \cup {Malformed}

Absent ==
    [exists |-> FALSE]

FileOf(text, t) ==
    [exists |-> TRUE, content |-> text, mtime |-> t]

\* a nil *Config
NoConfig ==
    [nil |-> TRUE]

\* no (config, err) pair yet
NoResult ==
    [err |-> "", config |-> NoConfig]

NoResponse ==
    [status |-> 0, body |-> <<>>]

\* no scrape has been served yet
NoScrape ==
    [none |-> TRUE]

ConfigHandlers ==
    1..NumConfig

HealthHandlers ==
    1..NumHealth

(* ------------------------------ state --------------------------------- *)

VARIABLES
    file,               \* the roster file: Absent or FileOf(text, mtime)
    clock,              \* number of writes made to the file so far
    serviceStatus,      \* the GaugeVec: label -> value, for the labels that are set
    lastModTime,        \* var lastModTime time.Time
    mutexWriter,        \* configMutex: the write lock is held
    mutexPending,       \* configMutex: a Lock() call is waiting for the readers to leave
    mutexReaders,       \* configMutex: the /config handlers holding the read lock
    mpc,                \* main: position
    mConfig,            \* main: config
    mErr,               \* history: the initial load failed
    mSawAbsent,         \* history: os.IsNotExist held at line 173
    wpc,                \* watcher: position
    wModTime,           \* watcher: modTime
    wConfig,            \* watcher: config
    wIdx,               \* watcher: index of the range loop in updateServiceMetrics
    cpc,                \* /config handlers: position
    cConfig,            \* /config handlers: result of loadConfig
    cResp,              \* /config handlers: the response written
    hpc,                \* / handlers: position
    hFail,              \* / handlers: rand.Float64() < 0.1
    hResp,              \* / handlers: the response written
    spc,                \* load simulator: position
    activeRequests,     \* gauge service_monitor_active_requests
    errorRate,          \* gauge service_monitor_error_rate, in tenths
    requestsProcessed,  \* counter service_monitor_requests_total
    requestDuration,    \* histogram service_monitor_request_duration_seconds: observations
    started,            \* history: GET / calls started
    completed,          \* history: GET / calls returned
    lastDecided,        \* history: outcome of the call that last evaluated line 237
    lastSet,            \* history: outcome of the call that last set errorRate
    editedSincePoll,    \* history: the file was written after the watcher's last stat
    lastWriter,         \* history: who wrote the file last
    scraped             \* /metrics: the service_monitor_up samples of the last scrape

fileVars ==
    <<file, clock, lastWriter, editedSincePoll>>

gaugeVars ==
    <<serviceStatus, lastModTime>>

mutexVars ==
    <<mutexWriter, mutexPending, mutexReaders>>

mainVars ==
    <<mpc, mConfig, mErr, mSawAbsent>>

watcherVars ==
    <<wpc, wModTime, wConfig, wIdx>>

configVars ==
    <<cpc, cConfig, cResp>>

healthVars ==
    <<hpc, hFail, hResp, errorRate, requestsProcessed, requestDuration,
      started, completed, lastDecided, lastSet>>

simVars ==
    <<spc>>

metricsVars ==
    <<scraped>>

vars ==
    <<file, clock, lastWriter, editedSincePoll, serviceStatus, lastModTime,
      mutexWriter, mutexPending, mutexReaders, mpc, mConfig, mErr, mSawAbsent,
      wpc, wModTime, wConfig, wIdx, cpc, cConfig, cResp, hpc, hFail, hResp,
      spc, activeRequests, errorRate, requestsProcessed, requestDuration,
      started, completed, lastDecided, lastSet, scraped>>

(* --------------------- loadConfig, the gauge vector -------------------- *)

\* toml.Unmarshal into Config: the two keys of the text become the two fields
Unmarshal(text) ==
    IF text = Malformed
    THEN [err |-> "error parsing config file", config |-> NoConfig]
    ELSE [err |-> "", config |-> Config(text.up_services, text.down_services)]

\* mutant: a missing file loads as an empty roster
loadConfigMissingIsEmpty(f) ==
    IF ~f.exists
    THEN [err |-> "", config |-> Config(<<>>, <<>>)]
    ELSE Unmarshal(f.content)

\* func loadConfig() (*Config, error)
loadConfig(f) ==
    IF ~f.exists
    THEN [err |-> "error opening config file", config |-> NoConfig]
    ELSE Unmarshal(f.content)

\* serviceStatus.Reset()
Reset ==
    [n \in {} |-> 0]

\* serviceStatus.WithLabelValues(service).Set(v)
SetLabel(g, service, v) ==
    [n \in DOMAIN g \cup {service} |-> IF n = service THEN v ELSE g[n]]

RECURSIVE SetAll(_, _, _)
\* for _, service := range services { ...Set(v) }
SetAll(g, services, v) ==
    IF services = <<>>
    THEN g
    ELSE SetAll(SetLabel(g, Head(services), v), Tail(services), v)

\* mutant: the down list is applied before the up list
updateServiceMetricsDownFirst(config) ==
    SetAll(SetAll(Reset, config.DownServices, 0), config.UpServices, 1)

\* func updateServiceMetrics(config *Config), run to completion
updateServiceMetrics(config) ==
    SetAll(SetAll(Reset, config.UpServices, 1), config.DownServices, 0)

(* ------------------------------- Init --------------------------------- *)

\* the process starts with the roster file absent or holding one of texts
InitWith(texts) ==
    /\ file \in {Absent} \cup {FileOf(text, 1) : text \in texts}
    /\ clock = (IF file.exists THEN 1 ELSE 0)
    /\ lastWriter = (IF file.exists THEN "env" ELSE "none")
    /\ editedSincePoll = FALSE
    /\ serviceStatus = Reset
    /\ lastModTime = 0
    /\ mutexWriter = FALSE
    /\ mutexPending = FALSE
    /\ mutexReaders = {}
    /\ mpc = "checkFile"
    /\ mConfig = NoConfig
    /\ mErr = FALSE
    /\ mSawAbsent = FALSE
    /\ wpc = "off"
    /\ wModTime = 0
    /\ wConfig = NoConfig
    /\ wIdx = 0
    /\ cpc = [h \in ConfigHandlers |-> "idle"]
    /\ cConfig = [h \in ConfigHandlers |-> NoResult]
    /\ cResp = [h \in ConfigHandlers |-> NoResponse]
    /\ hpc = [h \in HealthHandlers |-> "idle"]
    /\ hFail = [h \in HealthHandlers |-> FALSE]
    /\ hResp = [h \in HealthHandlers |-> NoResponse]
    /\ spc = "off"
    /\ activeRequests = 0
    /\ errorRate = 0
    /\ requestsProcessed = 0
    /\ requestDuration = 0
    /\ started = 0
    /\ completed = 0
    /\ lastDecided = "none"
    /\ lastSet = "none"
    /\ scraped = NoScrape

Init ==
    InitWith(Contents)

(* ---------------------------- environment ----------------------------- *)

\* an editor saves text to the roster file
EnvWrite(text) ==
    /\ clock < MaxEdits
    /\ file' = FileOf(text, clock + 1)
    /\ clock' = clock + 1
    /\ lastWriter' = "env"
    /\ editedSincePoll' = TRUE
    /\ UNCHANGED <<metricsVars, gaugeVars, mutexVars, mainVars, watcherVars, configVars,
                   healthVars, simVars, activeRequests>>

\* the roster file is removed
EnvDelete ==
    /\ file.exists
    /\ file' = Absent
    /\ lastWriter' = "env"
    /\ editedSincePoll' = TRUE
    /\ UNCHANGED <<metricsVars, clock, gaugeVars, mutexVars, mainVars, watcherVars, configVars,
                   healthVars, simVars, activeRequests>>

(* ------------------------------- main --------------------------------- *)

\* if _, err := os.Stat(configPath); os.IsNotExist(err)
MainCheckFile ==
    /\ mpc = "checkFile"
    /\ mSawAbsent' = ~file.exists
    /\ mpc' = (IF file.exists THEN "load" ELSE "writeDefault")
    /\ UNCHANGED <<metricsVars, fileVars, gaugeVars, mutexVars, mConfig, mErr, watcherVars,
                   configVars, healthVars, simVars, activeRequests>>

\* os.WriteFile(configPath, []byte(defaultConfig), 0644); an error is only logged
MainWriteDefault ==
    /\ mpc = "writeDefault"
    /\ \E ok \in BOOLEAN :
          IF ok
          THEN /\ file' = FileOf(defaultConfig, clock + 1)
               /\ clock' = clock + 1
               /\ lastWriter' = "main"
               /\ editedSincePoll' = TRUE
          ELSE UNCHANGED fileVars
    /\ mpc' = "load"
    /\ UNCHANGED <<metricsVars, gaugeVars, mutexVars, mConfig, mErr, mSawAbsent, watcherVars,
                   configVars, healthVars, simVars, activeRequests>>

\* mutant: on error main goes on with an empty roster
MainLoadNoFallback ==
    /\ mpc = "load"
    /\ LET r == loadConfig(file)
       IN  /\ mErr' = (r.err # "")
           /\ mConfig' = (IF r.err # "" THEN Config(<<>>, <<>>) ELSE r.config)
    /\ mpc' = "stat"
    /\ UNCHANGED <<metricsVars, fileVars, gaugeVars, mutexVars, mSawAbsent, watcherVars,
                   configVars, healthVars, simVars, activeRequests>>

\* config, err := loadConfig(); on error config = the hard-coded roster
MainLoad ==
    /\ mpc = "load"
    /\ LET r == loadConfig(file)
       IN  /\ mErr' = (r.err # "")
           /\ mConfig' = (IF r.err # "" THEN FallbackConfig ELSE r.config)
    /\ mpc' = "stat"
    /\ UNCHANGED <<metricsVars, fileVars, gaugeVars, mutexVars, mSawAbsent, watcherVars,
                   configVars, healthVars, simVars, activeRequests>>

\* fileInfo, err := os.Stat(configPath); if err == nil { lastModTime = ... }
MainStat ==
    /\ mpc = "stat"
    /\ lastModTime' = (IF file.exists THEN file.mtime ELSE lastModTime)
    /\ mpc' = "apply"
    /\ UNCHANGED <<metricsVars, fileVars, serviceStatus, mutexVars, mConfig, mErr, mSawAbsent,
                   watcherVars, configVars, healthVars, simVars, activeRequests>>

\* updateServiceMetrics(config): no other task runs on the gauge yet
MainApply ==
    /\ mpc = "apply"
    /\ serviceStatus' = updateServiceMetrics(mConfig)
    /\ mpc' = "goWatch"
    /\ UNCHANGED <<metricsVars, fileVars, lastModTime, mutexVars, mConfig, mErr, mSawAbsent,
                   watcherVars, configVars, healthVars, simVars, activeRequests>>

\* go watchConfig(); config is not used again
MainGoWatch ==
    /\ mpc = "goWatch"
    /\ wpc' = "stat"
    /\ mpc' = "goSim"
    /\ mConfig' = NoConfig
    /\ UNCHANGED <<metricsVars, fileVars, gaugeVars, mutexVars, mErr, mSawAbsent, wModTime,
                   wConfig, wIdx, configVars, healthVars, simVars, activeRequests>>

\* go func() { for { ... } }(): the load simulator
MainGoSim ==
    /\ mpc = "goSim"
    /\ spc' = "set"
    /\ mpc' = "serve"
    /\ UNCHANGED <<metricsVars, fileVars, gaugeVars, mutexVars, mConfig, mErr, mSawAbsent,
                   watcherVars, configVars, healthVars, activeRequests>>

\* http.ListenAndServe(":8080", nil): from here on requests are handled
MainServe ==
    /\ mpc = "serve"
    /\ mpc' = "serving"
    /\ UNCHANGED <<metricsVars, fileVars, gaugeVars, mutexVars, mConfig, mErr, mSawAbsent,
                   watcherVars, configVars, healthVars, simVars, activeRequests>>

Main ==
    \/ MainCheckFile
    \/ MainWriteDefault
    \/ MainLoad
    \/ MainStat
    \/ MainApply
    \/ MainGoWatch
    \/ MainGoSim
    \/ MainServe

(* ------------------------------ watcher ------------------------------- *)

\* position after serviceStatus.Reset(): the first range loop that has an element
AfterReset(config) ==
    IF config.UpServices # <<>> THEN "setUp"
    ELSE IF config.DownServices # <<>> THEN "setDown"
    ELSE "setLastModTime"

\* position after the range loop over config.UpServices
AfterUp(config) ==
    IF config.DownServices # <<>> THEN "setDown" ELSE "setLastModTime"

\* mutant: the watcher returns when the stat fails
WatchStatGivesUp ==
    /\ wpc = "stat"
    /\ IF file.exists
       THEN /\ wModTime' = file.mtime
            /\ wpc' = "compare"
       ELSE /\ wModTime' = 0
            /\ wpc' = "off"
    /\ wConfig' = NoConfig
    /\ wIdx' = 0
    /\ editedSincePoll' = FALSE
    /\ UNCHANGED <<metricsVars, file, clock, lastWriter, gaugeVars, mutexVars, mainVars,
                   configVars, healthVars, simVars, activeRequests>>

\* a new iteration: modTime and config are fresh;
\* fileInfo, err := os.Stat(configPath); on error: log, sleep, continue
WatchStat ==
    /\ wpc = "stat"
    /\ IF file.exists
       THEN /\ wModTime' = file.mtime
            /\ wpc' = "compare"
       ELSE /\ wModTime' = 0
            /\ wpc' = "sleep"
    /\ wConfig' = NoConfig
    /\ wIdx' = 0
    /\ editedSincePoll' = FALSE
    /\ UNCHANGED <<metricsVars, file, clock, lastWriter, gaugeVars, mutexVars, mainVars,
                   configVars, healthVars, simVars, activeRequests>>

\* mutant: the watcher reloads on every poll
WatchCompareAlways ==
    /\ wpc = "compare"
    /\ wpc' = "load"
    /\ UNCHANGED <<metricsVars, fileVars, gaugeVars, mutexVars, mainVars, wModTime, wConfig, wIdx,
                   configVars, healthVars, simVars, activeRequests>>

\* if modTime != lastModTime
WatchCompare ==
    /\ wpc = "compare"
    /\ IF wModTime # lastModTime
       THEN wpc' = "load"
       ELSE wpc' = "sleep"
    /\ UNCHANGED <<metricsVars, fileVars, gaugeVars, mutexVars, mainVars, wModTime, wConfig, wIdx,
                   configVars, healthVars, simVars, activeRequests>>

\* config, err := loadConfig(); on error: log and fall through to the sleep
WatchLoad ==
    /\ wpc = "load"
    /\ LET r == loadConfig(file)
       IN  IF r.err # ""
           THEN /\ wpc' = "sleep"
                /\ UNCHANGED wConfig
           ELSE /\ wpc' = "lock"
                /\ wConfig' = r.config
    /\ UNCHANGED <<metricsVars, fileVars, gaugeVars, mutexVars, mainVars, wModTime, wIdx, configVars,
                   healthVars, simVars, activeRequests>>

\* mutant: the watcher applies the roster without taking the lock
WatchLockSkipped ==
    /\ wpc = "lock"
    /\ wpc' = "reset"
    /\ UNCHANGED <<metricsVars, fileVars, gaugeVars, mutexVars, mainVars, wModTime, wConfig,
                   wIdx, configVars, healthVars, simVars, activeRequests>>

\* configMutex.Lock(), first half: announce the writer, new readers now wait
WatchLock ==
    /\ wpc = "lock"
    /\ mutexPending' = TRUE
    /\ wpc' = "lockWait"
    /\ UNCHANGED <<metricsVars, fileVars, gaugeVars, mutexWriter, mutexReaders, mainVars,
                   wModTime, wConfig, wIdx, configVars, healthVars, simVars,
                   activeRequests>>

\* configMutex.Lock(), second half: the readers have left
WatchLockAcquire ==
    /\ wpc = "lockWait"
    /\ mutexReaders = {}
    /\ mutexWriter' = TRUE
    /\ mutexPending' = FALSE
    /\ wpc' = "reset"
    /\ UNCHANGED <<metricsVars, fileVars, gaugeVars, mutexReaders, mainVars, wModTime, wConfig,
                   wIdx, configVars, healthVars, simVars, activeRequests>>

\* mutant: updateServiceMetrics without the Reset
WatchResetSkipped ==
    /\ wpc = "reset"
    /\ wpc' = AfterReset(wConfig)
    /\ wIdx' = 1
    /\ UNCHANGED <<metricsVars, fileVars, gaugeVars, mutexVars, mainVars, wModTime, wConfig,
                   configVars, healthVars, simVars, activeRequests>>

\* updateServiceMetrics: serviceStatus.Reset()
WatchReset ==
    /\ wpc = "reset"
    /\ serviceStatus' = Reset
    /\ wpc' = AfterReset(wConfig)
    /\ wIdx' = 1
    /\ UNCHANGED <<metricsVars, fileVars, lastModTime, mutexVars, mainVars, wModTime, wConfig,
                   configVars, healthVars, simVars, activeRequests>>

\* updateServiceMetrics: one iteration of the loop over config.UpServices
WatchSetUp ==
    /\ wpc = "setUp"
    /\ serviceStatus' = SetLabel(serviceStatus, wConfig.UpServices[wIdx], 1)
    /\ IF wIdx < Len(wConfig.UpServices)
       THEN /\ wIdx' = wIdx + 1
            /\ UNCHANGED wpc
       ELSE /\ wIdx' = 1
            /\ wpc' = AfterUp(wConfig)
    /\ UNCHANGED <<metricsVars, fileVars, lastModTime, mutexVars, mainVars, wModTime, wConfig,
                   configVars, healthVars, simVars, activeRequests>>

\* updateServiceMetrics: one iteration of the loop over config.DownServices
WatchSetDown ==
    /\ wpc = "setDown"
    /\ serviceStatus' = SetLabel(serviceStatus, wConfig.DownServices[wIdx], 0)
    /\ IF wIdx < Len(wConfig.DownServices)
       THEN /\ wIdx' = wIdx + 1
            /\ UNCHANGED wpc
       ELSE /\ wIdx' = 1
            /\ wpc' = "setLastModTime"
    /\ UNCHANGED <<metricsVars, fileVars, lastModTime, mutexVars, mainVars, wModTime, wConfig,
                   configVars, healthVars, simVars, activeRequests>>

\* the time recorded is read from the file again instead of taken from modTime
WatchSetLastModTimeFresh ==
    /\ wpc = "setLastModTime"
    /\ lastModTime' = (IF file.exists THEN file.mtime ELSE 0)
    /\ wpc' = "unlock"
    /\ UNCHANGED <<metricsVars, fileVars, serviceStatus, mutexVars, mainVars, wModTime, wConfig,
                   wIdx, configVars, healthVars, simVars, activeRequests>>

\* lastModTime = modTime
WatchSetLastModTime ==
    /\ wpc = "setLastModTime"
    /\ lastModTime' = wModTime
    /\ wpc' = "unlock"
    /\ UNCHANGED <<metricsVars, fileVars, serviceStatus, mutexVars, mainVars, wModTime, wConfig,
                   wIdx, configVars, healthVars, simVars, activeRequests>>

\* the watcher goes on to its sleep with the write lock still held
WatchUnlockSkipped ==
    /\ wpc = "unlock"
    /\ wpc' = "sleep"
    /\ UNCHANGED <<metricsVars, fileVars, gaugeVars, mutexVars, mainVars,
                   wModTime, wConfig, wIdx, configVars, healthVars, simVars,
                   activeRequests>>

\* configMutex.Unlock(), the log line, then on to the sleep
WatchUnlock ==
    /\ wpc = "unlock"
    /\ mutexWriter' = FALSE
    /\ wpc' = "sleep"
    /\ UNCHANGED <<metricsVars, fileVars, gaugeVars, mutexPending, mutexReaders, mainVars,
                   wModTime, wConfig, wIdx, configVars, healthVars, simVars,
                   activeRequests>>

\* time.Sleep(checkInterval), then the next iteration of the for loop
WatchSleep ==
    /\ wpc = "sleep"
    /\ wpc' = "stat"
    /\ UNCHANGED <<metricsVars, fileVars, gaugeVars, mutexVars, mainVars, wModTime, wConfig,
                   wIdx, configVars, healthVars, simVars, activeRequests>>

Watcher ==
    \/ WatchStat
    \/ WatchCompare
    \/ WatchLoad
    \/ WatchLock
    \/ WatchLockAcquire
    \/ WatchReset
    \/ WatchSetUp
    \/ WatchSetDown
    \/ WatchSetLastModTime
    \/ WatchUnlock
    \/ WatchSleep

(* ---------------------------- GET /config ----------------------------- *)

\* the text the handler prints for a loaded config
Render(config) ==
    <<"UP SERVICES", Len(config.UpServices), config.UpServices,
      "DOWN SERVICES", Len(config.DownServices), config.DownServices>>

\* a request for /config is dispatched to handler h
ConfigArrive(h) ==
    /\ mpc = "serving"
    /\ cpc[h] = "idle"
    /\ cpc' = [cpc EXCEPT ![h] = "rlock"]
    /\ UNCHANGED <<metricsVars, fileVars, gaugeVars, mutexVars, mainVars, watcherVars, cConfig,
                   cResp, healthVars, simVars, activeRequests>>

\* a read lock that is granted whatever the writer does
ConfigRLockNoWait(h) ==
    /\ cpc[h] = "rlock"
    /\ mutexReaders' = mutexReaders \cup {h}
    /\ cpc' = [cpc EXCEPT ![h] = "load"]
    /\ UNCHANGED <<metricsVars, fileVars, gaugeVars, mutexWriter, mutexPending, mainVars,
                   watcherVars, cConfig, cResp, healthVars, simVars, activeRequests>>

\* configMutex.RLock(): waits while a writer holds or awaits the lock
ConfigRLock(h) ==
    /\ cpc[h] = "rlock"
    /\ ~mutexWriter
    /\ ~mutexPending
    /\ mutexReaders' = mutexReaders \cup {h}
    /\ cpc' = [cpc EXCEPT ![h] = "load"]
    /\ UNCHANGED <<metricsVars, fileVars, gaugeVars, mutexWriter, mutexPending, mainVars,
                   watcherVars, cConfig, cResp, healthVars, simVars, activeRequests>>

\* config, err := loadConfig()
ConfigLoad(h) ==
    /\ cpc[h] = "load"
    /\ cConfig' = [cConfig EXCEPT ![h] = loadConfig(file)]
    /\ cpc' = [cpc EXCEPT ![h] = "respond"]
    /\ UNCHANGED <<metricsVars, fileVars, gaugeVars, mutexVars, mainVars, watcherVars, cResp,
                   healthVars, simVars, activeRequests>>

\* the 500 with the error text, or the rendered lists
ConfigRespond(h) ==
    /\ cpc[h] = "respond"
    /\ cResp' = [cResp EXCEPT ![h] =
                    IF cConfig[h].err # ""
                    THEN [status |-> 500,
                          body |-> <<"Error loading config", cConfig[h].err>>]
                    ELSE [status |-> 200, body |-> Render(cConfig[h].config)]]
    /\ cConfig' = [cConfig EXCEPT ![h] = NoResult]
    /\ cpc' = [cpc EXCEPT ![h] = "runlock"]
    /\ UNCHANGED <<metricsVars, fileVars, gaugeVars, mutexVars, mainVars, watcherVars,
                   healthVars, simVars, activeRequests>>

\* defer configMutex.RUnlock(): the handler returns and the response is sent
ConfigRUnlock(h) ==
    /\ cpc[h] = "runlock"
    /\ mutexReaders' = mutexReaders \ {h}
    /\ cResp' = [cResp EXCEPT ![h] = NoResponse]
    /\ cpc' = [cpc EXCEPT ![h] = "idle"]
    /\ UNCHANGED <<metricsVars, fileVars, gaugeVars, mutexWriter, mutexPending, mainVars,
                   watcherVars, cConfig, healthVars, simVars, activeRequests>>

ConfigHandler(h) ==
    \/ ConfigArrive(h)
    \/ ConfigRLock(h)
    \/ ConfigLoad(h)
    \/ ConfigRespond(h)
    \/ ConfigRUnlock(h)

(* ------------------------------- GET / -------------------------------- *)

\* errorRate.Set(0.1), in tenths
ErrorRateOnFailure ==
    1

\* errorRate.Set(0.0)
ErrorRateOnSuccess ==
    0

Outcome(fail) ==
    IF fail THEN "failure" ELSE "success"

\* a request for / is dispatched to handler h: activeRequests.Inc(), start := time.Now()
HealthEnter(h) ==
    /\ mpc = "serving"
    /\ hpc[h] = "idle"
    /\ started < MaxRequests
    /\ activeRequests' = activeRequests + 1
    /\ started' = started + 1
    /\ hpc' = [hpc EXCEPT ![h] = "sleep"]
    /\ UNCHANGED <<metricsVars, fileVars, gaugeVars, mutexVars, mainVars, watcherVars, configVars,
                   hFail, hResp, errorRate, requestsProcessed, requestDuration,
                   completed, lastDecided, lastSet, simVars>>

\* time.Sleep(processingTime) ends; if rand.Float64() < 0.1
HealthDecide(h) ==
    /\ hpc[h] = "sleep"
    /\ \E fail \in BOOLEAN :
          /\ hFail' = [hFail EXCEPT ![h] = fail]
          /\ lastDecided' = Outcome(fail)
    /\ hpc' = [hpc EXCEPT ![h] = "setErrorRate"]
    /\ UNCHANGED <<metricsVars, fileVars, gaugeVars, mutexVars, mainVars, watcherVars, configVars,
                   hResp, errorRate, requestsProcessed, requestDuration, started,
                   completed, lastSet, simVars, activeRequests>>

\* mutant: the failure path does not set the gauge to 0.1
HealthSetErrorRateZero(h) ==
    /\ hpc[h] = "setErrorRate"
    /\ errorRate' = ErrorRateOnSuccess
    /\ lastSet' = Outcome(hFail[h])
    /\ hpc' = [hpc EXCEPT ![h] = "write"]
    /\ UNCHANGED <<metricsVars, fileVars, gaugeVars, mutexVars, mainVars, watcherVars, configVars,
                   hFail, hResp, requestsProcessed, requestDuration, started,
                   completed, lastDecided, simVars, activeRequests>>

\* errorRate.Set(0.1) or errorRate.Set(0.0)
HealthSetErrorRate(h) ==
    /\ hpc[h] = "setErrorRate"
    /\ errorRate' = (IF hFail[h] THEN ErrorRateOnFailure ELSE ErrorRateOnSuccess)
    /\ lastSet' = Outcome(hFail[h])
    /\ hpc' = [hpc EXCEPT ![h] = "write"]
    /\ UNCHANGED <<metricsVars, fileVars, gaugeVars, mutexVars, mainVars, watcherVars, configVars,
                   hFail, hResp, requestsProcessed, requestDuration, started,
                   completed, lastDecided, simVars, activeRequests>>

\* mutant: the calls are not deferred and the failure path returns before them
HealthWriteEarlyReturn(h) ==
    /\ hpc[h] = "write"
    /\ hFail' = [hFail EXCEPT ![h] = FALSE]
    /\ IF hFail[h]
       THEN /\ hpc' = [hpc EXCEPT ![h] = "idle"]
            /\ completed' = completed + 1
            /\ UNCHANGED hResp
       ELSE /\ hpc' = [hpc EXCEPT ![h] = "observe"]
            /\ hResp' = [hResp EXCEPT ![h] =
                            [status |-> 200, body |-> "Service Monitor is running!"]]
            /\ UNCHANGED completed
    /\ UNCHANGED <<metricsVars, fileVars, gaugeVars, mutexVars, mainVars, watcherVars, configVars,
                   errorRate, requestsProcessed, requestDuration, started,
                   lastDecided, lastSet, simVars, activeRequests>>

\* w.WriteHeader(500); w.Write("Internal Server Error"); return   or   w.Write("Service Monitor is running!")
HealthWrite(h) ==
    /\ hpc[h] = "write"
    /\ hResp' = [hResp EXCEPT ![h] =
                    IF hFail[h]
                    THEN [status |-> 500, body |-> "Internal Server Error"]
                    ELSE [status |-> 200, body |-> "Service Monitor is running!"]]
    /\ hFail' = [hFail EXCEPT ![h] = FALSE]
    /\ hpc' = [hpc EXCEPT ![h] = "observe"]
    /\ UNCHANGED <<metricsVars, fileVars, gaugeVars, mutexVars, mainVars, watcherVars, configVars,
                   errorRate, requestsProcessed, requestDuration, started, completed,
                   lastDecided, lastSet, simVars, activeRequests>>

\* deferred closure: requestDuration.Observe(duration)
HealthObserve(h) ==
    /\ hpc[h] = "observe"
    /\ requestDuration' = requestDuration + 1
    /\ hpc' = [hpc EXCEPT ![h] = "count"]
    /\ UNCHANGED <<metricsVars, fileVars, gaugeVars, mutexVars, mainVars, watcherVars, configVars,
                   hFail, hResp, errorRate, requestsProcessed, started, completed,
                   lastDecided, lastSet, simVars, activeRequests>>

\* deferred closure: requestsProcessed.Inc()
HealthCount(h) ==
    /\ hpc[h] = "count"
    /\ requestsProcessed' = requestsProcessed + 1
    /\ hpc' = [hpc EXCEPT ![h] = "dec"]
    /\ UNCHANGED <<metricsVars, fileVars, gaugeVars, mutexVars, mainVars, watcherVars, configVars,
                   hFail, hResp, errorRate, requestDuration, started, completed,
                   lastDecided, lastSet, simVars, activeRequests>>

\* defer activeRequests.Dec(): the handler returns and the response is sent
HealthDec(h) ==
    /\ hpc[h] = "dec"
    /\ activeRequests' = activeRequests - 1
    /\ completed' = completed + 1
    /\ hResp' = [hResp EXCEPT ![h] = NoResponse]
    /\ hpc' = [hpc EXCEPT ![h] = "idle"]
    /\ UNCHANGED <<metricsVars, fileVars, gaugeVars, mutexVars, mainVars, watcherVars, configVars,
                   hFail, errorRate, requestsProcessed, requestDuration, started,
                   lastDecided, lastSet, simVars>>

HealthHandler(h) ==
    \/ HealthEnter(h)
    \/ HealthDecide(h)
    \/ HealthSetErrorRate(h)
    \/ HealthWrite(h)
    \/ HealthObserve(h)
    \/ HealthCount(h)
    \/ HealthDec(h)

(* ---------------------------- GET /metrics ---------------------------- *)

\* promhttp.Handler(): the registry gathers the gauge vector; the vector's own
\* lock makes the gathering atomic with respect to each Reset and each Set,
\* and configMutex is not taken
MetricsScrape ==
    /\ mpc = "serving"
    /\ scraped' = serviceStatus
    /\ UNCHANGED <<fileVars, gaugeVars, mutexVars, mainVars, watcherVars, configVars,
                   healthVars, simVars, activeRequests>>

(* --------------------------- load simulator --------------------------- *)

\* load := rand.Float64() * 10; activeRequests.Set(load)
SimSet ==
    /\ spc = "set"
    /\ \E load \in 0..MaxLoad : activeRequests' = load
    /\ spc' = "sleep"
    /\ UNCHANGED <<metricsVars, fileVars, gaugeVars, mutexVars, mainVars, watcherVars, configVars,
                   healthVars>>

\* time.Sleep(5 * time.Second)
SimSleep ==
    /\ spc = "sleep"
    /\ spc' = "set"
    /\ UNCHANGED <<metricsVars, fileVars, gaugeVars, mutexVars, mainVars, watcherVars, configVars,
                   healthVars, activeRequests>>

Simulator ==
    \/ SimSet
    \/ SimSleep

(* --------------------------- specifications --------------------------- *)

\* the whole program
Next ==
    \/ Main
    \/ Watcher
    \/ \E text \in Contents : EnvWrite(text)
    \/ EnvDelete
    \/ \E h \in ConfigHandlers : ConfigHandler(h)
    \/ \E h \in HealthHandlers : HealthHandler(h)
    \/ MetricsScrape
    \/ Simulator

Spec ==
    Init /\ [][Next]_vars

\* startup, the watcher and the editor of the file; no request arrives
ReloadNext ==
    \/ Main
    \/ Watcher
    \/ \E text \in Contents : EnvWrite(text)
    \/ EnvDelete

SpecReload ==
    Init /\ [][ReloadNext]_vars

\* texts written while /config requests are served
LockTexts ==
    {[up_services |-> <<"api-gateway">>, down_services |-> <<"auth-service">>],
     [up_services |-> <<"auth-service">>, down_services |-> <<>>],
     Malformed}

\* startup, the watcher, the editor and the /config handlers: all users of configMutex
LockNext ==
    \/ Main
    \/ Watcher
    \/ \E text \in LockTexts : EnvWrite(text)
    \/ EnvDelete
    \/ \E h \in ConfigHandlers : ConfigHandler(h)

SpecLock ==
    InitWith(LockTexts) /\ [][LockNext]_vars

\* the one roster an editor saves while every kind of task is running
TaskTexts ==
    {[up_services |-> <<"api-gateway">>, down_services |-> <<"auth-service">>]}

\* startup on an empty directory, then every kind of task side by side: the
\* watcher, an editor, one /config request and one / request at a time, the
\* /metrics scrapes and the load simulator
TasksNext ==
    \/ Main
    \/ Watcher
    \/ \E text \in TaskTexts : EnvWrite(text)
    \/ \E h \in {1} : ConfigHandler(h)
    \/ \E h \in {1} : HealthHandler(h)
    \/ MetricsScrape
    \/ Simulator

SpecTasks ==
    InitWith({}) /\ [][TasksNext]_vars

\* startup on an empty directory, then the users of configMutex: the watcher
\* and the /config handlers, with an editor saving a roster
FairLockNext ==
    \/ Main
    \/ Watcher
    \/ \E text \in TaskTexts : EnvWrite(text)
    \/ \E h \in ConfigHandlers : ConfigHandler(h)

\* a request once accepted runs to its end (a runnable goroutine is scheduled
\* and a sleep ends); whether a request arrives or the file is edited is left
\* open
ConfigRuns(h) ==
    ConfigRLock(h) \/ ConfigLoad(h) \/ ConfigRespond(h) \/ ConfigRUnlock(h)

FairSpecLock ==
    /\ InitWith({})
    /\ [][FairLockNext]_vars
    /\ WF_vars(Main)
    /\ WF_vars(Watcher)
    /\ \A h \in ConfigHandlers : WF_vars(ConfigRuns(h))

\* startup, the watcher, the editor and the /metrics scrapes
ScrapeNext ==
    \/ Main
    \/ Watcher
    \/ \E text \in LockTexts : EnvWrite(text)
    \/ EnvDelete
    \/ MetricsScrape

SpecScrape ==
    InitWith(LockTexts) /\ [][ScrapeNext]_vars

\* startup on an empty directory, the / handlers and the load simulator
HealthNext ==
    \/ Main
    \/ \E h \in HealthHandlers : HealthHandler(h)
    \/ Simulator

SpecHealth ==
    InitWith({}) /\ [][HealthNext]_vars

(* ------------------------------- claims -------------------------------- *)

\* the roster a well-formed text holds
RosterOf(text) ==
    Unmarshal(text).config

\* the file holds a valid roster
FileValid ==
    file.exists /\ file.content # Malformed

\* updateServiceMetrics(config) has run to completion in main
MainApplied ==
    mpc = "goWatch"

\* updateServiceMetrics(config) has run to completion in the watcher
WatchApplied ==
    wpc \in {"setLastModTime", "unlock"}

\* the gauge holds value v for every name of names
HoldsFor(names, v) ==
    \A n \in names : n \in DOMAIN serviceStatus /\ serviceStatus[n] = v

\* C1: after updateServiceMetrics completes, the gauge is 1 for every name that
\* is only in the up list and 0 for every name in the down list; a name in both
\* lists reads 0, because the down list is applied after the up list.
C1_ApplySetsUpAndDown ==
    /\ MainApplied =>
          /\ HoldsFor(Range(mConfig.UpServices) \ Range(mConfig.DownServices), 1)
          /\ HoldsFor(Range(mConfig.DownServices), 0)
    /\ WatchApplied =>
          /\ HoldsFor(Range(wConfig.UpServices) \ Range(wConfig.DownServices), 1)
          /\ HoldsFor(Range(wConfig.DownServices), 0)

\* the watcher has applied a roster that names a service in both lists, and
\* that service reads 0
C1_Witness ==
    /\ WatchApplied
    /\ Range(wConfig.UpServices) \cap Range(wConfig.DownServices) # {}
    /\ HoldsFor(Range(wConfig.UpServices) \cap Range(wConfig.DownServices), 0)

\* C2: once updateServiceMetrics has completed, the labels present in the gauge
\* are exactly the up and down names of the roster just applied; no label of an
\* earlier roster remains.
C2_OnlyCurrentLabels ==
    /\ MainApplied =>
          DOMAIN serviceStatus = Range(mConfig.UpServices) \cup Range(mConfig.DownServices)
    /\ WatchApplied =>
          DOMAIN serviceStatus = Range(wConfig.UpServices) \cup Range(wConfig.DownServices)

\* the initial load failed, so main set default-service; the watcher has since
\* applied a roster and the label is gone
C2_Witness ==
    /\ WatchApplied
    /\ mErr
    /\ "default-service" \notin DOMAIN serviceStatus

\* the gauge mapping of the roster the file holds
MappingOfFile ==
    updateServiceMetrics(RosterOf(file.content))

\* the watcher has finished a poll and the file was not written since that
\* poll's stat
PollEndedAfterLastWrite ==
    wpc = "sleep" /\ ~editedSincePoll

\* C3: after an edit that leaves a valid roster in the file, with no further
\* edit, the gauge mapping equals the mapping of that roster by the end of the
\* first watcher poll that starts after the write; also for an edit made during
\* startup or while a poll is in progress.
C3_ReflectedWithinOnePoll ==
    (PollEndedAfterLastWrite /\ FileValid) => serviceStatus = MappingOfFile

\* the gauge mapping and lastModTime are left as they are
GaugeKept ==
    serviceStatus' = serviceStatus /\ lastModTime' = lastModTime

\* the watcher takes a step
WatchSteps ==
    wpc' # wpc

\* C4: in a watcher poll in which the modification time stat returned equals
\* lastModTime, the watcher performs no load and no updateServiceMetrics: it goes
\* from the comparison straight to the sleep, and the gauge mapping and
\* lastModTime are unchanged by the poll.
C4_NoReloadWhenUnchanged ==
    [][/\ (wpc = "stat" /\ WatchSteps) => GaugeKept
       /\ (wpc = "compare" /\ wModTime = lastModTime /\ WatchSteps) =>
             (wpc' = "sleep" /\ wConfig' = NoConfig /\ GaugeKept)]_vars

\* a poll has ended that found the modification time it had already seen: it
\* loaded nothing
C4_Witness ==
    /\ wpc = "sleep"
    /\ wModTime # 0
    /\ wModTime = lastModTime
    /\ wConfig = NoConfig

\* C5: loadConfig returns an error when the file is missing and when its content
\* is malformed; in a watcher poll where the stat or the load fails, the gauge
\* mapping and lastModTime stay as they were before the poll and the watcher goes
\* on to its sleep.
C5_FailedPollKeepsRoster ==
    [][/\ (~file.exists \/ file.content = Malformed) => loadConfig(file).err # ""
       /\ (wpc \in {"stat", "compare", "load"}) => GaugeKept
       /\ (wpc = "stat" /\ ~file.exists /\ WatchSteps) => wpc' = "sleep"
       /\ (wpc = "load" /\ ~FileValid /\ WatchSteps) =>
             (wpc' = "sleep" /\ wConfig' = NoConfig)]_vars

\* a poll has ended whose load failed: the modification time it saw is not
\* recorded and the roster applied before is still in the gauge
C5_Witness ==
    /\ wpc = "sleep"
    /\ wModTime # 0
    /\ wModTime # lastModTime
    /\ lastModTime # 0
    /\ ~FileValid
    /\ serviceStatus # Reset
    /\ "default-service" \notin DOMAIN serviceStatus

\* startup, the watcher and an editor that writes the texts of LockTexts
WatchNext ==
    \/ Main
    \/ Watcher
    \/ \E text \in LockTexts : EnvWrite(text)
    \/ EnvDelete

\* the scheduler runs main and the watcher whenever they can take a step, and
\* every sleep ends
FairSpecWatch ==
    InitWith(LockTexts) /\ [][WatchNext]_vars /\ WF_vars(Main) /\ WF_vars(Watcher)

\* C6: after startup no stat failure and no load failure stops the watcher: it
\* polls again and again for ever; in every poll in which the file's
\* modification time differs from lastModTime it attempts the load; and a poll
\* that loads a present, valid file goes on to apply that roster.
C6_WatcherNeverStops ==
    /\ []<>(wpc = "stat")
    /\ [][/\ (wpc = "compare" /\ wModTime # lastModTime /\ WatchSteps) => wpc' = "load"
          /\ (wpc = "load" /\ FileValid /\ WatchSteps) =>
                (wpc' = "lock" /\ wConfig' = RosterOf(file.content))]_vars
    /\ (wpc = "lock") ~> (wpc = "unlock" /\ serviceStatus = updateServiceMetrics(wConfig))

\* the load of the last poll failed (it saw a new modification time and loaded
\* nothing) and the watcher is back at the stat of its next poll
C6_Witness ==
    /\ wpc = "stat"
    /\ wModTime # 0
    /\ wModTime # lastModTime
    /\ wConfig = NoConfig

\* main's initial loadConfig (line 196) returns
InitialLoadReturns ==
    mpc = "load" /\ mpc' = "stat"

\* neither the watcher nor a handler nor the simulator has started
NothingStarted ==
    /\ wpc = "off"
    /\ spc = "off"
    /\ \A h \in ConfigHandlers : cpc[h] = "idle"
    /\ \A h \in HealthHandlers : hpc[h] = "idle"

\* C7 as stated: whenever main found the file absent, its first load
\* either fails or reads the default roster
C7_FirstLoadReadsDefault ==
    [][(InitialLoadReturns /\ mSawAbsent) =>
          (mErr' \/ mConfig' = RosterOf(defaultConfig))]_vars

\* C7 (amended): at startup, if the roster file is absent main attempts to write
\* the default roster before the first load, and the first load reads that
\* default provided the write succeeded and nobody wrote or removed the file
\* between that write and the load; if the initial load fails, the gauge is
\* initialised to default-service = 1 and no other label before the watcher, the
\* simulator and the HTTP handlers start.
C7_StartupDefaults ==
    /\ [][/\ (mpc = "checkFile" /\ mpc' # mpc) =>
                mpc' = (IF file.exists THEN "load" ELSE "writeDefault")
          /\ (mpc = "writeDefault" /\ mpc' # mpc) =>
                (mpc' = "load" /\ file' \in {file, FileOf(defaultConfig, clock + 1)})
          /\ (InitialLoadReturns /\ mSawAbsent /\ lastWriter = "main") =>
                (~mErr' /\ mConfig' = RosterOf(defaultConfig))]_vars
    /\ []((MainApplied /\ mErr) => serviceStatus = [n \in {"default-service"} |-> 1])
    /\ [](mpc \in {"checkFile", "writeDefault", "load", "stat", "apply", "goWatch"} =>
             NothingStarted)

\* main found no file, wrote the default and its first load has read it
C7_Witness ==
    /\ mpc = "stat"
    /\ mSawAbsent
    /\ ~mErr
    /\ mConfig = RosterOf(defaultConfig)

\* the value errorRate.Set is given for an outcome
RateOf(outcome) ==
    IF outcome = "failure" THEN ErrorRateOnFailure ELSE ErrorRateOnSuccess

\* no call is between its outcome decision and its errorRate.Set
NoSetPending ==
    \A h \in HealthHandlers : hpc[h] # "setErrorRate"

\* C8 as stated: the error-rate gauge is 0 or 0.1 and, once every call
\* that has decided has also set the gauge, it equals the outcome of the call
\* that decided last
C8_ErrorRateIsLastDecision ==
    /\ errorRate \in {ErrorRateOnSuccess, ErrorRateOnFailure}
    /\ (NoSetPending /\ lastDecided # "none") => errorRate = RateOf(lastDecided)

\* C8 (amended): every GET / call answers 500 "Internal Server Error" after
\* setting the error-rate gauge to 0.1, or 200 after setting it to 0; in every
\* reachable state the gauge is 0 or 0.1 and equals the outcome of the call that
\* most recently executed its errorRate.Set (not the call that most recently
\* decided its outcome: a call that decided earlier may set the gauge later).
C8_ErrorRateIsLastSet ==
    /\ [](errorRate \in {ErrorRateOnSuccess, ErrorRateOnFailure})
    /\ [](errorRate = (IF lastSet = "none" THEN 0 ELSE RateOf(lastSet)))
    /\ [][\A h \in HealthHandlers :
             /\ (hpc[h] = "setErrorRate" /\ hpc'[h] # hpc[h]) =>
                   (hpc'[h] = "write" /\ errorRate' = RateOf(Outcome(hFail[h])))
             /\ (hpc'[h] = "write") => hpc[h] \in {"setErrorRate", "write"}
             /\ (hpc[h] = "write" /\ hpc'[h] # hpc[h]) =>
                   hResp'[h] = (IF hFail[h]
                                THEN [status |-> 500, body |-> "Internal Server Error"]
                                ELSE [status |-> 200, body |-> "Service Monitor is running!"])]_vars

\* two calls overlapped: the one that decided last succeeded, the one that set
\* the gauge last failed, and the gauge reads 0.1
C8_Witness ==
    /\ NoSetPending
    /\ lastDecided = "success"
    /\ lastSet = "failure"
    /\ errorRate = ErrorRateOnFailure

\* the calls in the last step of their exit, between the counter increment and
\* the return
Returning ==
    {h \in HealthHandlers : hpc[h] = "dec"}

\* the calls between the duration observation and the return
Observed ==
    {h \in HealthHandlers : hpc[h] \in {"count", "dec"}}

InLockedSection ==
    wpc \in {"reset", "setUp", "setDown", "setLastModTime", "unlock"}

\* a step of the watcher's reload sequence: the load of the file, a write of the
\* gauge or the write of lastModTime
ReloadStep ==
    /\ wpc # "off"
    /\ \/ wpc = "load" /\ WatchSteps
       \/ serviceStatus' # serviceStatus
       \/ lastModTime' # lastModTime

\* C10 as stated: every step of the reload sequence, the load included, is
\* taken while the write lock is held
C10_WholeReloadUnderLock ==
    [][ReloadStep => mutexWriter]_vars

\* C10 (amended): when the watcher detects a changed modification time it reads
\* the file with loadConfig before it takes the lock, without holding it; the
\* reset and the sets of the gauge by updateServiceMetrics and the update of
\* lastModTime are performed while the watcher holds the exclusive write lock,
\* which no /config handler shares.
C10_ApplyUnderLock ==
    /\ [](InLockedSection <=> mutexWriter)
    /\ [](mutexWriter => mutexReaders = {})
    /\ [][/\ (wpc = "load" /\ WatchSteps) => (~mutexWriter /\ ~mutexWriter')
          /\ (wpc # "off" /\ (serviceStatus' # serviceStatus \/ lastModTime' # lastModTime))
                => (mutexWriter /\ mutexWriter' /\ mutexReaders = {})]_vars

\* the watcher is writing under the lock while a /config handler waits for it
C10_Witness ==
    /\ wpc = "setLastModTime"
    /\ mutexWriter
    /\ serviceStatus = updateServiceMetrics(wConfig)
    /\ \E h \in ConfigHandlers : cpc[h] = "rlock"


(* ------------------------------ C11 ------------------------------ *)

\* the /config handler h is between its RLock and its deferred RUnlock
ConfigInside(h) ==
    cpc[h] \in {"load", "respond", "runlock"}

ConfigSteps(h) ==
    cpc'[h] # cpc[h]

\* C11: a /config handler holds the read lock from its RLock to its return, so
\* none is inside its locked section while the watcher is inside its
\* reset-apply section; it loads the roster from the file as it is at that
\* moment and renders it, answers 500 with the error text when the load fails,
\* and no step of it changes the service-status gauge or lastModTime.
C11_ConfigUnderReadLock ==
    /\ [](\A h \in ConfigHandlers : ConfigInside(h) <=> h \in mutexReaders)
    /\ [](InLockedSection => \A h \in ConfigHandlers : ~ConfigInside(h))
    /\ [][\A h \in ConfigHandlers : ConfigSteps(h) =>
            /\ GaugeKept
            /\ cpc[h] = "load" => cConfig'[h] = loadConfig(file)
            /\ cpc[h] = "respond" =>
                 /\ cConfig[h].err # "" =>
                      /\ cResp'[h].status = 500
                      /\ cResp'[h].body = <<"Error loading config", cConfig[h].err>>
                 /\ cConfig[h].err = "" =>
                      /\ cResp'[h].status = 200
                      /\ cResp'[h].body = Render(cConfig[h].config)]_vars

\* two /config handlers are inside together, one answering 500 and one
\* answering with the rendered roster, while the watcher waits for the lock
C11_Witness ==
    /\ wpc = "lockWait"
    /\ \E h1, h2 \in ConfigHandlers :
        /\ cpc[h1] = "runlock" /\ cResp[h1].status = 500
        /\ cpc[h2] = "runlock" /\ cResp[h2].status = 200
        /\ {h1, h2} \subseteq mutexReaders


(* ------------------------------ C12 ------------------------------ *)

\* the watcher's assignment lastModTime = modTime, reached only after a
\* successful loadConfig
WatcherRecords ==
    /\ wpc = "setLastModTime"
    /\ WatchSteps
    /\ wConfig # NoConfig
    /\ lastModTime' = wModTime

\* main's assignment of the initial modification time, before the watcher,
\* the handlers and the simulator are started
StartupRecords ==
    /\ mpc = "stat"
    /\ mpc' = "apply"
    /\ NothingStarted
    /\ file.exists
    /\ lastModTime' = file.mtime

\* a step of a GET / handler, a GET /config handler, a scrape or the simulator
ServingStep ==
    \/ \E h \in HealthHandlers : hpc'[h] # hpc[h]
    \/ \E h \in ConfigHandlers : ConfigSteps(h)
    \/ scraped' # scraped
    \/ spc' # spc

\* C12 as stated: lastModTime is changed by the watcher only, on a successful
\* reload, to the modification time it sampled
C12_OnlyWatcherWrites ==
    [][lastModTime' # lastModTime => WatcherRecords]_vars

\* C12 (amended): lastModTime is changed by main's startup, which records the
\* file's modification time once before any other task is started, and after
\* that by the watcher only, on a successful reload, to the modification time
\* it sampled by stat before loading; no step of GET /, GET /config,
\* GET /metrics or the load simulator changes it.
C12_StartupThenWatcherWrites ==
    /\ [][lastModTime' # lastModTime => (StartupRecords \/ WatcherRecords)]_vars
    /\ [][ServingStep => lastModTime' = lastModTime]_vars

\* the watcher has recorded the time it sampled, replacing the one recorded by
\* startup, while a GET / and a GET /config request are in flight and a scrape
\* has been served
C12_Witness ==
    /\ wpc = "unlock"
    /\ lastModTime = wModTime
    /\ lastModTime > 1
    /\ hpc[1] # "idle"
    /\ cpc[1] = "rlock"
    /\ scraped # NoScrape


(* ------------------------------ C13 ------------------------------ *)

\* the watcher's Lock can return, or a /config handler that holds the read lock
\* can take its next step towards releasing it
WriterCanGoOn ==
    \/ ENABLED WatchLockAcquire
    \/ \E h \in mutexReaders : ConfigInside(h) /\ ENABLED ConfigRuns(h)

\* C13: the watcher is at its inter-poll sleep only with the lock released and
\* no Lock pending, so a /config handler waiting for the read lock while the
\* watcher sleeps can take it; a waiting watcher is held up only by handlers
\* inside their locked section, each of which can take its next step, and a
\* waiting handler only by the watcher, which can take its next step or waits
\* in turn for such handlers; a watcher
\* waiting for the write lock and a /config handler waiting for the read lock
\* each eventually acquire it.
C13_NoLockAcrossSleep ==
    /\ [](wpc = "sleep" => ~mutexWriter /\ ~mutexPending)
    /\ [](wpc = "sleep" =>
            \A h \in ConfigHandlers : cpc[h] = "rlock" => ENABLED ConfigRLock(h))
    /\ [](wpc = "lockWait" => WriterCanGoOn)
    /\ [](\A h \in ConfigHandlers : cpc[h] = "rlock" =>
            \/ ENABLED ConfigRLock(h)
            \/ ENABLED Watcher
            \/ wpc = "lockWait" /\ WriterCanGoOn)
    /\ (wpc = "lockWait") ~> (wpc = "reset" /\ mutexWriter)
    /\ \A h \in ConfigHandlers : (cpc[h] = "rlock") ~> (cpc[h] = "load" /\ h \in mutexReaders)

\* the watcher waits for the write lock behind a /config handler that is inside
\* its locked section, and another /config handler waits behind the watcher
C13_Witness ==
    /\ wpc = "lockWait"
    /\ mutexPending
    /\ \E h1, h2 \in ConfigHandlers :
        /\ cpc[h1] = "respond" /\ h1 \in mutexReaders
        /\ cpc[h2] = "rlock"


(* ------------------------------ C14 ------------------------------ *)

\* the watcher is between two polls
BetweenPolls ==
    wpc = "sleep"

\* C14 as stated: whenever the watcher is between polls, lastModTime equals the
\* file's modification time and the file holds a valid roster, the gauge mapping
\* is the mapping of the file's content; every write gives the file a new
\* modification time.
C14_RecordedTimeMeansApplied ==
    (BetweenPolls /\ FileValid /\ lastModTime = file.mtime) => serviceStatus = MappingOfFile


(* ------------------------------ C15 ------------------------------ *)

\* the rosters updateServiceMetrics is ever called with: a roster read from the
\* file, the default roster main writes, the hard-coded fallback
AppliedRosters ==
    {RosterOf(text) : text \in (LockTexts \cup {defaultConfig}) \ {Malformed}}
        \cup {FallbackConfig}

\* C15 as stated: every scrape observes the complete mapping of an applied
\* roster, never the empty or partly filled mapping between the Reset and the
\* last Set of a reload.
C15_ScrapeSeesWholeRoster ==
    scraped # NoScrape => \E config \in AppliedRosters : scraped = updateServiceMetrics(config)


(* ------------------------------ C16 ------------------------------ *)

\* C16 as stated: under every interleaving of the GET / handlers and the load
\* simulator the active-request gauge is never negative.
C16_ActiveRequestsNeverNegative ==
    activeRequests >= 0

====
